---- MODULE Spec2Model ----
(***************************************************************************)
(* A model of appconfig's AppConfigManager<T> (src/src/lib.rs): a manager  *)
(* binds a shared settings cell (Rc<RefCell<T>>) to the file               *)
(*   <config_dir>/com.<organization_name>.<app_name>/app_config.toml       *)
(* and loads / saves the cell's value as TOML text.  T is the crate's test *)
(* type MyAppConfig { window_pos: (u32, u32) }.                            *)
(*                                                                         *)
(* Strings are sequences of tokens (one token per character for names and  *)
(* numbers), so that formatting and parsing are computed, not assumed.     *)
(* The file system is a set of directories plus a map from file paths to   *)
(* contents.  A system call that can fail for reasons outside the program  *)
(* (no config directory, permissions) fails when the step's `fault` input  *)
(* names it.                                                               *)
(***************************************************************************)
EXTENDS Integers, Sequences, FiniteSets, TLC

VARIABLES
  mgr,    \* manager id -> the AppConfigManager struct (or not built / dropped)
  cells,  \* cell id -> value held by the Rc<RefCell<T>>
  dirs,   \* the directories that exist
  files,  \* file path -> content, for the files that exist
  last,   \* the last call made and what it returned to the caller
  saved   \* history: the last successful save whose file nobody else wrote since

vars == <<mgr, cells, dirs, files, last, saved>>

----------------------------------------------------------------------------
(* Bounds and input sets *)

\* settings values are window_pos = Position(k), k in 1..MaxScale
MaxScale == 2

Managers == {1, 2}
Cells == {1, 2}

OrgNames == { <<"a">>, <<"a", ".", "b">> }
AppNames == { <<"c">>, <<"b", ".", "c">> }

\* the system call that the environment fails during a load, during a save
LoadFaults == {"none", "config_dir", "create_dir_all", "read_to_string"}
SaveFaults == {"none", "config_dir", "create_dir_all", "write"}

----------------------------------------------------------------------------
(* The settings type: tests::MyAppConfig *)

Position(k) == <<320 * k, 280 + 200 * (k - 1)>>

MyAppConfig(pos) == [window_pos |-> pos]

Settings == { MyAppConfig(Position(k)) : k \in 1..MaxScale }

Default == MyAppConfig(<<320, 280>>)

----------------------------------------------------------------------------
(* Text: u32 <-> decimal digits, MyAppConfig <-> TOML *)

DigitChars == <<"0", "1", "2", "3", "4", "5", "6", "7", "8", "9">>

IsDigit(c) == \E d \in 1..10 : DigitChars[d] = c

DigitValue(c) == (CHOOSE d \in 1..10 : DigitChars[d] = c) - 1

RECURSIVE FormatU32(_)
FormatU32(n) ==
  IF n < 10 THEN <<DigitChars[n + 1]>>
  ELSE FormatU32(n \div 10) \o <<DigitChars[(n % 10) + 1]>>

RECURSIVE DigitsValue(_)
DigitsValue(ds) ==
  IF ds = <<>> THEN 0
  ELSE 10 * DigitsValue(SubSeq(ds, 1, Len(ds) - 1)) + DigitValue(ds[Len(ds)])

\* a TOML integer read as u32: digits only, no leading zero.  Numbers of up
\* to nine digits are modelled; all of them fit u32 (and TLC's
\* integers), so the overflow error of longer numbers is out of the model.
IsU32Text(ds) ==
  /\ Len(ds) >= 1
  /\ Len(ds) < 10
  /\ \A i \in 1..Len(ds) : IsDigit(ds[i])
  /\ (Len(ds) > 1 => ds[1] # "0")

to_string_swapped(v) ==
  <<"window_pos", "=", "[">> \o FormatU32(v.window_pos[2]) \o <<",">>
    \o FormatU32(v.window_pos[1]) \o <<"]", "\n">>

\* toml::to_string(&MyAppConfig): "window_pos = [x, y]\n"
to_string(v) ==
  <<"window_pos", "=", "[">> \o FormatU32(v.window_pos[1]) \o <<",">>
    \o FormatU32(v.window_pos[2]) \o <<"]", "\n">>

\* the place of the first c in s, 0 when there is none
RECURSIVE IndexFrom(_, _, _)
IndexFrom(s, c, i) ==
  IF i > Len(s) THEN 0
  ELSE IF s[i] = c THEN i
  ELSE IndexFrom(s, c, i + 1)

IndexOf(s, c) == IndexFrom(s, c, 1)

\* the text "window_pos = [<xs>, <ys>]" with the comma and the bracket at the
\* places given
ArrayOfTwo(s, comma, close) ==
  IF /\ comma > 4
     /\ close > comma + 1
     /\ close >= Len(s) - 1
     /\ (close = Len(s) - 1 => s[Len(s)] = "\n")
     /\ IsU32Text(SubSeq(s, 4, comma - 1))
     /\ IsU32Text(SubSeq(s, comma + 1, close - 1))
  THEN [ok |-> TRUE,
        value |-> MyAppConfig(<<DigitsValue(SubSeq(s, 4, comma - 1)),
                                DigitsValue(SubSeq(s, comma + 1, close - 1))>>)]
  ELSE [ok |-> FALSE, value |-> Default]

\* toml::from_str::<MyAppConfig>(s)
from_str(s) ==
  IF Len(s) >= 7 /\ SubSeq(s, 1, 3) = <<"window_pos", "=", "[">>
  THEN ArrayOfTwo(s, IndexOf(s, ","), IndexOf(s, "]"))
  ELSE [ok |-> FALSE, value |-> Default]

----------------------------------------------------------------------------
(* Paths *)

ConfigRoot == <<"~/.config">>

\* format!("com.{}.{}", organization_name, app_name)
FolderName(organization_name, app_name) ==
  <<"c", "o", "m", ".">> \o organization_name \o <<".">> \o app_name

\* config_dir().join(folder)
ConfigDir(organization_name, app_name) ==
  ConfigRoot \o <<"/">> \o FolderName(organization_name, app_name)

\* path.join("app_config.toml")
ConfigFile(dir) == dir \o <<"/", "app_config.toml">>

Parent(path) == SubSeq(path, 1, Len(path) - 2)

DirOf(m) == ConfigDir(mgr[m].organization_name, mgr[m].app_name)

PathOf(m) == ConfigFile(DirOf(m))

AllDirs == { ConfigDir(o, a) : o \in OrgNames, a \in AppNames }

\* what other programs leave in the file: an empty file, a one-element array
ForeignContents ==
  { <<>>, <<"window_pos", "=", "[", "3", "2", "0", "]", "\n">> }

----------------------------------------------------------------------------
(* The manager *)

NotBuilt == [state |-> "none"]
Dropped == [state |-> "dropped"]

Live(m) == mgr[m].state = "live"

\* `last` when the last step was no load, save or drop
NoCall == [op |-> "other", m |-> 0, err |-> "none", inner |-> "none",
           path |-> <<>>, mkdir |-> FALSE, replaced |-> FALSE,
           changed |-> FALSE]

NoSave == [m |-> 0]

Init ==
  /\ mgr = [m \in Managers |-> NotBuilt]
  /\ cells = [c \in Cells |-> Default]
  /\ dirs = {}
  /\ files = <<>>
  /\ last = NoCall
  /\ saved = NoSave

\* AppConfigManager::new
New(m, c, app_name, organization_name) ==
  /\ mgr[m] = NotBuilt
  /\ mgr' = [mgr EXCEPT ![m] =
       [state |-> "live",
        data |-> c,
        organization_name |-> organization_name,
        app_name |-> app_name,
        auto_saving |-> TRUE,
        skip_parsing_error_when_loading |-> TRUE]]
  /\ last' = NoCall
  /\ UNCHANGED <<cells, dirs, files, saved>>

\* AppConfigManager::set_skip_parsing_error_when_loading (with_skip_parsing_error_when_loading is the same call on an owned self)
set_skip_parsing_error_when_loading(m, value) ==
  /\ Live(m)
  /\ mgr' = [mgr EXCEPT ![m].skip_parsing_error_when_loading = value]
  /\ last' = NoCall
  /\ UNCHANGED <<cells, dirs, files, saved>>

\* AppConfigManager::set_auto_saving (with_auto_saving is the same call on an owned self)
set_auto_saving(m, value) ==
  /\ Live(m)
  /\ mgr' = [mgr EXCEPT ![m].auto_saving = value]
  /\ last' = NoCall
  /\ UNCHANGED <<cells, dirs, files, saved>>

\* AppConfigManager::set_organization_name (with_organization_name is the same call on an owned self)
set_organization_name(m, value) ==
  /\ Live(m)
  /\ mgr' = [mgr EXCEPT ![m].organization_name = value]
  /\ last' = NoCall
  /\ UNCHANGED <<cells, dirs, files, saved>>

\* AppConfigManager::set_app_name (with_app_name is the same call on an owned self)
set_app_name(m, value) ==
  /\ Live(m)
  /\ mgr' = [mgr EXCEPT ![m].app_name = value]
  /\ last' = NoCall
  /\ UNCHANGED <<cells, dirs, files, saved>>

\* the caller writes the settings through data() / Deref: *m.borrow_mut() = v
Mutate(c, v) ==
  /\ cells[c] # v
  /\ cells' = [cells EXCEPT ![c] = v]
  /\ last' = NoCall
  /\ UNCHANGED <<mgr, dirs, files, saved>>

----------------------------------------------------------------------------
(* get_user_config_path, load, save, drop: what each call returns (err, and *)
(* "none" is Ok) and what it leaves in the file system and in the cell      *)

get_user_config_path_no_mkdir(m, fault) ==
  IF fault = "config_dir"
  THEN [err |-> "config_dir", path |-> <<>>, dirs |-> dirs, mkdir |-> FALSE]
  ELSE [err |-> "none", path |-> ConfigFile(DirOf(m)), dirs |-> dirs,
        mkdir |-> FALSE]

\* AppConfigManager::get_user_config_path
get_user_config_path(m, fault) ==
  IF fault = "config_dir"
  THEN [err |-> "config_dir", path |-> <<>>, dirs |-> dirs, mkdir |-> FALSE]
  ELSE IF DirOf(m) \notin dirs
  THEN IF fault = "create_dir_all"
       THEN [err |-> "create_dir_all", path |-> <<>>, dirs |-> dirs,
             mkdir |-> FALSE]
       ELSE [err |-> "none", path |-> ConfigFile(DirOf(m)),
             dirs |-> dirs \cup {DirOf(m)}, mkdir |-> TRUE]
  ELSE [err |-> "none", path |-> ConfigFile(DirOf(m)), dirs |-> dirs,
        mkdir |-> FALSE]

\* std::fs::read_to_string(&path) under `fault`, in the directories ds
read_to_string(path, ds, fault) ==
  IF Parent(path) \notin ds \/ path \notin DOMAIN files
  THEN [err |-> "read_not_found", text |-> <<>>]
  ELSE IF fault = "read_to_string"
  THEN [err |-> "read_denied", text |-> <<>>]
  ELSE [err |-> "none", text |-> files[path]]

\* load with its parts as parameters: what a missing file gives (onMissing:
\* "error", or "default" for Ok with T::default()), what a text that does not
\* parse gives when the flag is set (onSkipped: "keep" or "default"), whether
\* the flag is read at all (flagRead, and the flag's value when it is not),
\* and whether a parsed value is stored
LoadWith(m, fault, onMissing, onSkipped, flagRead, flagValue, stored) ==
  LET g == get_user_config_path(m, fault)
      old == cells[mgr[m].data]
      base == [err |-> g.err, path |-> g.path, dirs |-> g.dirs,
               mkdir |-> g.mkdir, data |-> old]
      s == read_to_string(g.path, g.dirs, fault)
      parsed == from_str(s.text)
      skip == IF flagRead THEN mgr[m].skip_parsing_error_when_loading
              ELSE flagValue
  IN  IF g.err # "none" THEN base
      ELSE IF s.err # "none"
      THEN IF s.err = "read_not_found" /\ onMissing = "default"
           THEN [base EXCEPT !.data = Default]
           ELSE [base EXCEPT !.err = s.err]
      ELSE IF skip
      THEN IF parsed.ok
           THEN [base EXCEPT !.data = IF stored THEN parsed.value ELSE old]
           ELSE [base EXCEPT !.data = IF onSkipped = "default" THEN Default
                                      ELSE old]
      ELSE IF parsed.ok
           THEN [base EXCEPT !.data = IF stored THEN parsed.value ELSE old]
           ELSE [base EXCEPT !.err = "from_str"]

load_auto_recovery(m, fault) ==
  LoadWith(m, fault, "default", "keep", TRUE, TRUE, TRUE)

load_default_on_error(m, fault) ==
  LoadWith(m, fault, "error", "default", TRUE, TRUE, TRUE)

load_always_skip(m, fault) ==
  LoadWith(m, fault, "error", "keep", FALSE, TRUE, TRUE)

load_never_skip(m, fault) ==
  LoadWith(m, fault, "error", "keep", FALSE, FALSE, TRUE)

load_discards(m, fault) ==
  LoadWith(m, fault, "error", "keep", TRUE, TRUE, FALSE)

\* AppConfigManager::load: the value the cell holds after the call
load(m, fault) ==
  LET g == get_user_config_path(m, fault)
      old == cells[mgr[m].data]
      base == [err |-> g.err, path |-> g.path, dirs |-> g.dirs,
               mkdir |-> g.mkdir, data |-> old]
      s == read_to_string(g.path, g.dirs, fault)
      parsed == from_str(s.text)
  IN  IF g.err # "none" THEN base
      ELSE IF s.err # "none" THEN [base EXCEPT !.err = s.err]
      ELSE IF mgr[m].skip_parsing_error_when_loading
      THEN IF parsed.ok THEN [base EXCEPT !.data = parsed.value]
           ELSE base
      ELSE IF parsed.ok THEN [base EXCEPT !.data = parsed.value]
           ELSE [base EXCEPT !.err = "from_str"]

fs_write_append(before, bytes) == before \o bytes

\* std::fs::write(&path, bytes): the content of the file afterwards
fs_write(before, bytes) == bytes

\* the bytes at path in the file map fs, nothing when there is no file
ContentIn(fs, path) == IF path \in DOMAIN fs THEN fs[path] ELSE <<>>

ContentAt(path) == ContentIn(files, path)

\* AppConfigManager::save: the file system after the call
save(m, fault) ==
  LET g == get_user_config_path(m, fault)
      toml == to_string(cells[mgr[m].data])
      base == [err |-> g.err, path |-> g.path, dirs |-> g.dirs,
               mkdir |-> g.mkdir, files |-> files, replaced |-> FALSE]
  IN  IF g.err # "none" THEN base
      ELSE IF Parent(g.path) \notin g.dirs
      THEN [base EXCEPT !.err = "write_not_found"]
      ELSE IF fault = "write"
      THEN [base EXCEPT !.err = "write_denied"]
      ELSE [base EXCEPT
              !.files = (g.path :> fs_write(ContentAt(g.path), toml)) @@ files,
              !.replaced = /\ ContentAt(g.path) # <<>>
                           /\ ContentAt(g.path) # toml]

drop_always_saves(m, fault) ==
  [save(m, fault) EXCEPT !.err = "none"] @@ [inner |-> save(m, fault).err]

\* Drop::drop: `inner` is the result of the save, which .ok() discards
drop(m, fault) ==
  IF mgr[m].auto_saving
  THEN [save(m, fault) EXCEPT !.err = "none"] @@ [inner |-> save(m, fault).err]
  ELSE [err |-> "none", inner |-> "none", path |-> <<>>, dirs |-> dirs,
        mkdir |-> FALSE, files |-> files, replaced |-> FALSE]

----------------------------------------------------------------------------
(* History *)

\* the last successful save, after a save by m returned err
SavedAfter(m, err) ==
  IF err = "none"
  THEN [m |-> m,
        organization_name |-> mgr[m].organization_name,
        app_name |-> mgr[m].app_name,
        value |-> cells[mgr[m].data]]
  ELSE saved

Called(op, m, r, inner, replaced, changed) ==
  [op |-> op, m |-> m, err |-> r.err, inner |-> inner, path |-> r.path,
   mkdir |-> r.mkdir, replaced |-> replaced, changed |-> changed]

----------------------------------------------------------------------------
(* The calls as steps *)

\* the step of a load that returned r
LoadDone(m, r) ==
  /\ cells' = [cells EXCEPT ![mgr[m].data] = r.data]
  /\ dirs' = r.dirs
  /\ last' = Called("load", m, r, r.err, FALSE, r.data # cells[mgr[m].data])
  /\ UNCHANGED <<mgr, files, saved>>

Load(m, fault) == Live(m) /\ LoadDone(m, load(m, fault))

\* the step of a save that returned r
SaveDone(m, r) ==
  /\ dirs' = r.dirs
  /\ files' = r.files
  /\ last' = Called("save", m, r, r.err, r.replaced, FALSE)
  /\ saved' = SavedAfter(m, r.err)
  /\ UNCHANGED <<mgr, cells>>

Save(m, fault) == Live(m) /\ SaveDone(m, save(m, fault))

\* the step of a drop that returned r: the manager is gone, the cell stays
\* with its other holders
DropDone(m, r) ==
  /\ dirs' = r.dirs
  /\ files' = r.files
  /\ last' = Called("drop", m, r, r.inner, r.replaced, FALSE)
  /\ saved' = IF r.path # <<>> THEN SavedAfter(m, r.inner) ELSE saved
  /\ mgr' = [mgr EXCEPT ![m] = Dropped]
  /\ UNCHANGED cells

Drop(m, fault) == Live(m) /\ DropDone(m, drop(m, fault))

\* another program writes the config file of an existing config directory
ForeignWrite(dir, content) ==
  /\ dir \in dirs
  /\ IF ConfigFile(dir) \in DOMAIN files
     THEN files[ConfigFile(dir)] # content
     ELSE TRUE
  /\ files' = (ConfigFile(dir) :> content) @@ files
  /\ saved' = IF /\ saved # NoSave
                 /\ ConfigDir(saved.organization_name, saved.app_name) = dir
              THEN NoSave
              ELSE saved
  /\ last' = NoCall
  /\ UNCHANGED <<mgr, cells, dirs>>

\* one manager over cell 1, every operation
Next ==
  \/ \E a \in AppNames, o \in OrgNames : New(1, 1, a, o)
  \/ \E value \in BOOLEAN : set_skip_parsing_error_when_loading(1, value)
  \/ \E value \in BOOLEAN : set_auto_saving(1, value)
  \/ \E value \in OrgNames : set_organization_name(1, value)
  \/ \E value \in AppNames : set_app_name(1, value)
  \/ \E v \in Settings : Mutate(1, v)
  \/ \E fault \in LoadFaults : Load(1, fault)
  \/ \E fault \in SaveFaults : Save(1, fault)
  \/ \E fault \in SaveFaults : Drop(1, fault)
  \/ \E dir \in AllDirs, content \in ForeignContents : ForeignWrite(dir, content)

Spec == Init /\ [][Next]_vars

\* two managers with the default flags, over any cells, loading and saving
\* side by side
NextPair ==
  \/ \E m \in Managers, c \in Cells, a \in AppNames, o \in OrgNames :
       New(m, c, a, o)
  \/ \E c \in Cells, v \in Settings : Mutate(c, v)
  \/ \E m \in Managers, fault \in LoadFaults : Load(m, fault)
  \/ \E m \in Managers, fault \in SaveFaults : Save(m, fault)

SpecPair == Init /\ [][NextPair]_vars

----------------------------------------------------------------------------
(* Properties.  In a state, `last` tells the call just made; in a step,     *)
(* last' tells the call the step makes, the unprimed variables are the      *)
(* state before it and the primed ones the state after it.                  *)

Data(m) == cells[mgr[m].data]

SameNames(m) ==
  /\ mgr[m].organization_name = saved.organization_name
  /\ mgr[m].app_name = saved.app_name

\* the errors of get_user_config_path: no path was computed
PathErrors == {"config_dir", "create_dir_all"}

Malformed(path) == path \in DOMAIN files /\ ~from_str(files[path]).ok

\* C1 (round trip): when the last successful save was made by manager m with
\* value v, nobody else wrote the file since, and m (under the same names)
\* then loads, the load returns Ok and the cell holds v again, under either
\* flag, unless the environment fails the load itself (no config directory,
\* file not readable).
C1_RoundTrip ==
  ( /\ last.op = "load"
    /\ saved # NoSave
    /\ saved.m = last.m
    /\ SameNames(last.m)
    /\ last.err \notin {"config_dir", "read_denied"} )
  => ( /\ last.err = "none"
       /\ Data(last.m) = saved.value )

C1_Witness ==
  /\ last.op = "load"
  /\ saved # NoSave
  /\ saved.m = last.m
  /\ SameNames(last.m)
  /\ last.err = "none"
  /\ last.changed
  /\ ~mgr[last.m].skip_parsing_error_when_loading
  /\ saved.value # Default
  /\ Data(last.m) = saved.value

\* C2 as claimed (default fallback): with skip_parsing_error_when_loading
\* set, a load that finds no config file returns Ok and leaves T::default()
\* in the cell.
C2_DefaultFallback ==
  ( /\ last.op = "load"
    /\ mgr[last.m].skip_parsing_error_when_loading
    /\ last.err \notin PathErrors
    /\ last.path \notin DOMAIN files )
  => ( /\ last.err = "none"
       /\ Data(last.m) = Default )

\* C2 as amended: with skip_parsing_error_when_loading set, a load that finds
\* no config file returns an error (the read's "not found" once the path is
\* computed) and leaves every cell as it was.
C2_MissingFileIsError ==
  [][ ( /\ last'.op = "load"
        /\ mgr[last'.m].skip_parsing_error_when_loading
        /\ PathOf(last'.m) \notin DOMAIN files )
      => ( /\ last'.err \in PathErrors \cup {"read_not_found"}
           /\ cells' = cells ) ]_vars

C2_Witness ==
  /\ last.op = "load"
  /\ mgr[last.m].skip_parsing_error_when_loading
  /\ last.err = "read_not_found"
  /\ last.path \notin DOMAIN files
  /\ Data(last.m) # Default

\* C3 as claimed (malformed-file fallback): with the flag set, a load of a
\* file whose text does not deserialize returns Ok and leaves T::default()
\* in the cell.
C3_MalformedFallback ==
  ( /\ last.op = "load"
    /\ mgr[last.m].skip_parsing_error_when_loading
    /\ last.err \notin PathErrors \cup {"read_denied"}
    /\ Malformed(last.path) )
  => ( /\ last.err = "none"
       /\ Data(last.m) = Default )

\* C3 as amended: with the flag set, a load that reads a file whose text does
\* not deserialize returns Ok and leaves every cell as it was.
C3_MalformedKeepsValue ==
  [][ ( /\ last'.op = "load"
        /\ mgr[last'.m].skip_parsing_error_when_loading
        /\ Malformed(PathOf(last'.m))
        /\ last'.err \notin {"config_dir", "read_denied"} )
      => ( /\ last'.err = "none"
           /\ cells' = cells ) ]_vars

C3_Witness ==
  /\ last.op = "load"
  /\ mgr[last.m].skip_parsing_error_when_loading
  /\ last.err = "none"
  /\ last.path \in DOMAIN files
  /\ files[last.path] = <<>>
  /\ Data(last.m) # Default

\* C4: with the flag cleared, a load returns an error when the file is
\* missing ("not found") and when its text does not deserialize (the parse
\* error), and in both cases every cell is as it was.
C4_StrictLoadFails ==
  [][ ( /\ last'.op = "load"
        /\ ~mgr[last'.m].skip_parsing_error_when_loading
        /\ \/ PathOf(last'.m) \notin DOMAIN files
           \/ Malformed(PathOf(last'.m)) )
      => ( /\ last'.err # "none"
           /\ last'.err \notin PathErrors \cup {"read_denied"}
                => last'.err = IF PathOf(last'.m) \in DOMAIN files
                               THEN "from_str" ELSE "read_not_found"
           /\ cells' = cells ) ]_vars

C4_Witness ==
  /\ last.op = "load"
  /\ ~mgr[last.m].skip_parsing_error_when_loading
  /\ last.err = "from_str"
  /\ Malformed(last.path)
  /\ Data(last.m) # Default

\* C5 (teardown): a drop never returns an error; with auto_saving set and the
\* save it makes succeeding, the file afterwards is the encoding of the
\* cell's value; with auto_saving cleared the files and directories are as
\* they were.
C5_TeardownAutoSave ==
  [][ last'.op = "drop"
      => ( /\ last'.err = "none"
           /\ (mgr[last'.m].auto_saving /\ last'.inner = "none")
                => /\ PathOf(last'.m) \in DOMAIN files'
                   /\ files'[PathOf(last'.m)] = to_string(Data(last'.m))
           /\ ~mgr[last'.m].auto_saving
                => (files' = files /\ dirs' = dirs) ) ]_vars

C5_Witness ==
  /\ last.op = "drop"
  /\ last.inner = "none"
  /\ last.replaced
  /\ last.path \in DOMAIN files
  /\ from_str(files[last.path]).ok
  /\ from_str(files[last.path]).value # Default

\* C6 (overwrite): after a successful save the file is exactly the encoding
\* of the cell's value, whatever it held before, and decodes to that value.
C6_Overwrite ==
  (last.op = "save" /\ last.err = "none")
  => ( /\ last.path \in DOMAIN files
       /\ files[last.path] = to_string(Data(last.m))
       /\ from_str(files[last.path]) = [ok |-> TRUE, value |-> Data(last.m)] )

C6_Witness ==
  /\ last.op = "save"
  /\ last.err = "none"
  /\ last.replaced
  /\ files[last.path] = to_string(Data(last.m))

\* C7 (cross-instance): when the last successful save was made by another
\* manager under the same (organization_name, app_name) with value v, a load
\* that the environment does not fail returns Ok, writes v into the cell the
\* manager holds, and changes neither the manager (it holds the same cell)
\* nor any other cell.
C7_CrossInstance ==
  [][ ( /\ last'.op = "load"
        /\ saved # NoSave
        /\ saved.m # last'.m
        /\ SameNames(last'.m)
        /\ last'.err \notin {"config_dir", "read_denied"} )
      => ( /\ last'.err = "none"
           /\ cells' = [cells EXCEPT ![mgr[last'.m].data] = saved.value]
           /\ mgr' = mgr ) ]_vars

C7_Witness ==
  /\ last.op = "load"
  /\ saved # NoSave
  /\ saved.m # last.m
  /\ SameNames(last.m)
  /\ mgr[last.m].data # mgr[saved.m].data
  /\ last.err = "none"
  /\ last.changed
  /\ Data(last.m) = saved.value

\* C8 (directory creation): a load or save that computes its path leaves the
\* config directory in place; a save that finds no directory succeeds (unless
\* the environment refuses the directory or the write) and leaves a file
\* that deserializes; and no file is ever in a directory that does not exist.
C8_DirectoryCreation ==
  [][ /\ ( /\ last'.op \in {"load", "save"}
           /\ last'.err \notin PathErrors )
         => DirOf(last'.m) \in dirs'
      /\ ( /\ last'.op = "save"
           /\ DirOf(last'.m) \notin dirs
           /\ last'.err \notin PathErrors \cup {"write_denied"} )
         => ( /\ last'.err = "none"
              /\ last'.mkdir
              /\ last'.path \in DOMAIN files'
              /\ from_str(files'[last'.path]).ok )
      /\ \A p \in DOMAIN files' : Parent(p) \in dirs' ]_vars

C8_Witness ==
  /\ last.op = "save"
  /\ last.err = "none"
  /\ last.mkdir
  /\ last.path \in DOMAIN files
  /\ Parent(last.path) \in dirs

\* C9 (frame of load): under either flag a load changes a cell only when it
\* reads the file and the text deserializes, and then it stores exactly the
\* decoded value and returns Ok; with the flag set a text that does not
\* deserialize gives Ok, while a missing file gives the read's error.
C9_LoadFrame ==
  [][ last'.op = "load"
      => LET m == last'.m
             present == PathOf(m) \in DOMAIN files
             read == /\ present
                     /\ last'.err \notin PathErrors \cup {"read_denied"}
             skip == mgr[m].skip_parsing_error_when_loading
         IN  IF read /\ ~Malformed(PathOf(m))
             THEN /\ last'.err = "none"
                  /\ cells' = [cells EXCEPT
                                 ![mgr[m].data] = from_str(files[PathOf(m)]).value]
             ELSE /\ cells' = cells
                  /\ (skip /\ read) => last'.err = "none"
                  /\ (skip /\ ~present /\ last'.err \notin PathErrors)
                       => last'.err = "read_not_found" ]_vars

C9_Witness ==
  /\ last.op = "load"
  /\ mgr[last.m].skip_parsing_error_when_loading
  /\ last.err = "none"
  /\ ~last.changed
  /\ Malformed(last.path)
  /\ files[last.path] # <<>>
  /\ Data(last.m) # Default

\* C10 (independence): a save through one manager leaves alone the file of
\* every other manager whose (organization_name, app_name) differs from its
\* own: the two paths differ and the other file's content is unchanged.
C10_Independence ==
  [][ last'.op = "save"
      => \A m2 \in Managers :
           ( /\ Live(m2)
             /\ m2 # last'.m
             /\ <<mgr[m2].organization_name, mgr[m2].app_name>>
                  # <<mgr[last'.m].organization_name, mgr[last'.m].app_name>> )
           => ( /\ PathOf(m2) # PathOf(last'.m)
                /\ ContentIn(files', PathOf(m2)) = ContentAt(PathOf(m2)) )
    ]_vars

====
